---- MODULE Spec2Model ----
(***************************************************************************)
(* The live transcription session controller of components/Recorder.tsx:   *)
(* the Recorder component's state and refs, the objects its start attempts *)
(* create (AudioContext, MediaStream, audio graph, interval timer, live    *)
(* connection) and one action per handler or callback.                     *)
(***************************************************************************)
EXTENDS Integers, Sequences, FiniteSets, TLC

\* Bounds of the model.
MaxStarts == 2      \* calls of startRecording under Spec
MaxSessions == 2    \* calls of startRecording under SpecS and SpecA
MaxElapsed == 1     \* timer ticks counted
MaxMsgs == 2        \* LiveServerMessages delivered
MaxFrames == 2      \* audio frames produced by the recording streams
MaxFinish == 1      \* calls of handleFinish
MaxRefinish == 2    \* calls of handleFinish under SpecF
MaxPreviews == 2    \* getUserMedia calls of startPreview

\* The de-dup threshold of onmessage: lastChunk.text.length > 5.
MinOverlap == 5

Attempts == 1..MaxStarts

Previews == 1..MaxPreviews

\* The deviceIds of the audio inputs; "" is the initial selectedDeviceId.
Devices == { "mic1", "mic2" }

\* Text is a sequence of characters; " " is the only whitespace that occurs.
\* The values of inputTranscription.text: absent or empty, or a fragment.
Texts == { <<>>, <<" ", "a">> }

\* The same for the de-dup of onmessage (SpecD): a whitespace fragment and
\* fragments of 2, 5 and 6 characters, each a prefix of the next, the last
\* one also followed by a further word.
Two == <<"a", "b">>
Five == Two \o <<"c", "d", "e">>
Six == Five \o <<"f">>
TextsD == { <<>>, <<" ">>, Two, Five, Six, Six \o <<" ", "g">> }

NoResult == [duration |-> 0, text |-> <<>>, chunks |-> <<>>]

VARIABLES
    mounted,            \* the Recorder is mounted
    apiKey,             \* process.env.API_KEY is set
    isRecording, transcript, elapsedTime, error,                \* useState
    chunksRef, currentTurnRef, turnStartTimeRef,
    isTurnActiveRef, elapsedTimeRef,                            \* useRef
    streamRef, audioContextRef, processorRef, sourceRef,
    sessionRef, timerRef,                                       \* 0 is null, k the object of attempt k
    pc,                 \* pc[k]: position of the k-th startRecording call
    ctx,                \* ctx[k]: its AudioContext: none, open, closed
    stream,             \* stream[k]: its MediaStream: none, live, stopped
    srcOn, procOn,      \* its source / processor node is connected
    timer,              \* its setInterval timer runs
    conn,               \* its live connection: none, connecting, open, closed,
                        \* errored (error event delivered), failed (then its close event)
    opened,             \* its connection had its Open transition
    resolved,           \* its sessionPromise is resolved
    pending,            \* sends queued on its unresolved sessionPromise
    sent,               \* frames sent on its connection
    capturedOpen,       \* frames its stream produced after the Open transition
    nStarts, nMsgs, nFrames, nFinish,
    nResults, lastResult,   \* calls of onFinish, and the last RecordingResult
    selectedDeviceId,                                           \* useState
    previewStreamRef, previewContextRef,
    previewAnimationFrameRef,   \* 0 is null, p the object of the p-th startPreview
    pstream,            \* pstream[p]: its MediaStream: none, pending (getUserMedia
                        \* not settled), live, stopped, failed
    pctx,               \* pctx[p]: its AudioContext: none, open, closed
    praf,               \* its updateVolume has an animation frame requested
    nPreviews           \* getUserMedia calls of startPreview

vars == << mounted, apiKey, isRecording, transcript, elapsedTime, error,
           chunksRef, currentTurnRef, turnStartTimeRef, isTurnActiveRef,
           elapsedTimeRef, streamRef, audioContextRef, processorRef, sourceRef,
           sessionRef, timerRef, pc, ctx, stream, srcOn, procOn, timer, conn,
           opened, resolved, pending, sent, capturedOpen,
           nStarts, nMsgs, nFrames, nFinish, nResults, lastResult,
           selectedDeviceId, previewStreamRef, previewContextRef,
           previewAnimationFrameRef, pstream, pctx, praf, nPreviews >>

\* ------------------------------------------------------------------ text

RECURSIVE TrimStart(_)
TrimStart(s) ==
    IF s # <<>> /\ Head(s) = " " THEN TrimStart(Tail(s)) ELSE s

RECURSIVE TrimEnd(_)
TrimEnd(s) ==
    IF s # <<>> /\ s[Len(s)] = " " THEN TrimEnd(SubSeq(s, 1, Len(s) - 1)) ELSE s

\* Mutant of Trim: only the trailing whitespace is removed.
Trim_EndOnly(s) == TrimEnd(s)

\* Mutant of Trim: only the leading whitespace is removed.
Trim_StartOnly(s) == TrimStart(s)

\* String.prototype.trim
Trim(s) == TrimEnd(TrimStart(s))

\* String.prototype.startsWith
StartsWith(s, p) == Len(p) <= Len(s) /\ SubSeq(s, 1, Len(p)) = p

\* String.prototype.substring(n)
Substring(s, n) == SubSeq(s, n + 1, Len(s))

\* chunks.map(c => c.text).join(' ')
RECURSIVE JoinTexts(_)
JoinTexts(chunks) ==
    IF chunks = <<>> THEN <<>>
    ELSE IF Len(chunks) = 1 THEN chunks[1].text
    ELSE chunks[1].text \o <<" ">> \o JoinTexts(Tail(chunks))

\* Mutant of FullText: the separating space is always inserted.
FullText_AlwaysSpace(chunks, currentText) ==
    JoinTexts(chunks) \o <<" ">> \o currentText

\* fullText of onmessage
FullText(chunks, currentText) ==
    LET committedText == JoinTexts(chunks)
    IN  committedText
        \o (IF committedText # <<>> /\ currentText # <<>> THEN <<" ">> ELSE <<>>)
        \o currentText

\* ----------------------------------------------------------------- state

\* The state as one record, so that a handler is a function of the state.
Cur ==
    [ mounted |-> mounted, apiKey |-> apiKey, isRecording |-> isRecording,
      transcript |-> transcript, elapsedTime |-> elapsedTime, error |-> error,
      chunksRef |-> chunksRef, currentTurnRef |-> currentTurnRef,
      turnStartTimeRef |-> turnStartTimeRef, isTurnActiveRef |-> isTurnActiveRef,
      elapsedTimeRef |-> elapsedTimeRef, streamRef |-> streamRef,
      audioContextRef |-> audioContextRef, processorRef |-> processorRef,
      sourceRef |-> sourceRef, sessionRef |-> sessionRef, timerRef |-> timerRef,
      pc |-> pc, ctx |-> ctx, stream |-> stream, srcOn |-> srcOn,
      procOn |-> procOn, timer |-> timer, conn |-> conn, opened |-> opened,
      resolved |-> resolved, pending |-> pending, sent |-> sent,
      capturedOpen |-> capturedOpen, nStarts |-> nStarts, nMsgs |-> nMsgs,
      nFrames |-> nFrames, nFinish |-> nFinish, nResults |-> nResults,
      lastResult |-> lastResult, selectedDeviceId |-> selectedDeviceId,
      previewStreamRef |-> previewStreamRef,
      previewContextRef |-> previewContextRef,
      previewAnimationFrameRef |-> previewAnimationFrameRef,
      pstream |-> pstream, pctx |-> pctx, praf |-> praf,
      nPreviews |-> nPreviews ]

\* stopPreview: what the preview refs point to is cancelled, stopped, closed.
stopPreview(s) ==
    LET s1 == IF s.previewAnimationFrameRef = 0 THEN s
              ELSE [s EXCEPT !.praf[s.previewAnimationFrameRef] = FALSE,
                             !.previewAnimationFrameRef = 0]
        s2 == IF s1.previewStreamRef = 0 THEN s1
              ELSE [s1 EXCEPT !.pstream[s1.previewStreamRef] = "stopped",
                              !.previewStreamRef = 0]
    IN  IF s2.previewContextRef = 0 THEN s2
        ELSE [s2 EXCEPT !.pctx[s2.previewContextRef] = "closed",
                        !.previewContextRef = 0]

\* startPreview up to its suspension point (await getUserMedia).
startPreview(s, deviceId) ==
    LET s1 == stopPreview(s)
    IN  IF deviceId = "" THEN s1
        ELSE [s1 EXCEPT !.nPreviews = @ + 1,
                        !.pstream = [q \in DOMAIN @ |->
                                        IF q = s1.nPreviews + 1
                                        THEN "pending" ELSE @[q]]]

\* The preview effect (deps selectedDeviceId, isRecording, transcript) as it
\* runs after the render that follows a handler which took the state from
\* prev to s: the cleanup of its previous run, then its body.
previewEffect(prev, s) ==
    IF ~s.mounted
       \/ /\ s.selectedDeviceId = prev.selectedDeviceId
          /\ s.isRecording = prev.isRecording
          /\ s.transcript = prev.transcript
    THEN s
    ELSE IF s.isRecording THEN stopPreview(stopPreview(s))
    ELSE IF s.selectedDeviceId # "" /\ s.transcript = <<>>
    THEN startPreview(stopPreview(s), s.selectedDeviceId)
    ELSE stopPreview(s)

Committed(r) ==
    /\ mounted' = r.mounted
    /\ apiKey' = r.apiKey
    /\ isRecording' = r.isRecording
    /\ transcript' = r.transcript
    /\ elapsedTime' = r.elapsedTime
    /\ error' = r.error
    /\ chunksRef' = r.chunksRef
    /\ currentTurnRef' = r.currentTurnRef
    /\ turnStartTimeRef' = r.turnStartTimeRef
    /\ isTurnActiveRef' = r.isTurnActiveRef
    /\ elapsedTimeRef' = r.elapsedTimeRef
    /\ streamRef' = r.streamRef
    /\ audioContextRef' = r.audioContextRef
    /\ processorRef' = r.processorRef
    /\ sourceRef' = r.sourceRef
    /\ sessionRef' = r.sessionRef
    /\ timerRef' = r.timerRef
    /\ pc' = r.pc
    /\ ctx' = r.ctx
    /\ stream' = r.stream
    /\ srcOn' = r.srcOn
    /\ procOn' = r.procOn
    /\ timer' = r.timer
    /\ conn' = r.conn
    /\ opened' = r.opened
    /\ resolved' = r.resolved
    /\ pending' = r.pending
    /\ sent' = r.sent
    /\ capturedOpen' = r.capturedOpen
    /\ nStarts' = r.nStarts
    /\ nMsgs' = r.nMsgs
    /\ nFrames' = r.nFrames
    /\ nFinish' = r.nFinish
    /\ nResults' = r.nResults
    /\ lastResult' = r.lastResult
    /\ selectedDeviceId' = r.selectedDeviceId
    /\ previewStreamRef' = r.previewStreamRef
    /\ previewContextRef' = r.previewContextRef
    /\ previewAnimationFrameRef' = r.previewAnimationFrameRef
    /\ pstream' = r.pstream
    /\ pctx' = r.pctx
    /\ praf' = r.praf
    /\ nPreviews' = r.nPreviews

\* A handler took the state to s: the component renders, its effect runs.
Commit(s) ==
    /\ previewEffect(Cur, s).nPreviews <= MaxPreviews
    /\ Committed(previewEffect(Cur, s))

\* A React state setter: a no-op once the component is unmounted.
SetIsRecording(s, b) == IF s.mounted THEN [s EXCEPT !.isRecording = b] ELSE s
SetError(s, msg) == IF s.mounted THEN [s EXCEPT !.error = msg] ELSE s
SetTranscript(s, t) == IF s.mounted THEN [s EXCEPT !.transcript = t] ELSE s

\* -------------------------------------------------------------- handlers

\* Mutant of pushChunk: unshift instead of push.
pushChunk_Front(chunks, newChunk) == <<newChunk>> \o chunks

\* chunksRef.current.push(newChunk)
pushChunk(chunks, newChunk) == Append(chunks, newChunk)

\* The six releases of stopEverything: each acts on what its ref points to.
disconnectProcessor(s) ==
    [s EXCEPT
        !.procOn = [k \in Attempts |-> IF k = s.processorRef THEN FALSE ELSE @[k]],
        !.processorRef = 0]

disconnectSource(s) ==
    [s EXCEPT
        !.srcOn = [k \in Attempts |-> IF k = s.sourceRef THEN FALSE ELSE @[k]],
        !.sourceRef = 0]

closeAudioContext(s) ==
    [s EXCEPT
        !.ctx = [k \in Attempts |-> IF k = s.audioContextRef THEN "closed" ELSE @[k]],
        !.audioContextRef = 0]

stopTracks(s) ==
    [s EXCEPT
        !.stream = [k \in Attempts |-> IF k = s.streamRef THEN "stopped" ELSE @[k]],
        !.streamRef = 0]

\* The session is forgotten, not closed.
clearSession(s) == [s EXCEPT !.sessionRef = 0]

\* Mutant of clearTimer: clearInterval without timerRef.current = null.
clearTimer_KeepsRef(s) ==
    [s EXCEPT
        !.timer = [k \in Attempts |-> IF k = s.timerRef THEN FALSE ELSE @[k]]]

clearTimer(s) ==
    [s EXCEPT
        !.timer = [k \in Attempts |-> IF k = s.timerRef THEN FALSE ELSE @[k]],
        !.timerRef = 0]

stopEverything(s) ==
    SetIsRecording(
        clearTimer(clearSession(stopTracks(closeAudioContext(
            disconnectSource(disconnectProcessor(s)))))),
        FALSE)

\* Mutant of startRecording: the reset of lines 201-211 leaves the chunk
\* list of the earlier session in place.
startRecording_KeepChunks(s, k) ==
    LET reset == stopPreview(
                   [SetTranscript(SetError(s, "null"), <<>>) EXCEPT
                    !.elapsedTime = IF s.mounted THEN 0 ELSE @,
                    !.elapsedTimeRef = 0,
                    !.currentTurnRef = <<>>,
                    !.isTurnActiveRef = FALSE,
                    !.turnStartTimeRef = 0,
                    !.nStarts = k])
    IN  IF ~s.apiKey
        THEN stopEverything(SetError([reset EXCEPT !.pc[k] = "done"],
                                     "API Key not found"))
        ELSE [reset EXCEPT !.ctx[k] = "open",
                           !.audioContextRef = k,
                           !.pc[k] = "gum"]

\* startRecording up to its first suspension point (await getUserMedia), or
\* through its catch block when the API key is missing.
startRecording(s, k) ==
    LET reset == stopPreview(
                   [SetTranscript(SetError(s, "null"), <<>>) EXCEPT
                    !.elapsedTime = IF s.mounted THEN 0 ELSE @,
                    !.elapsedTimeRef = 0,
                    !.chunksRef = <<>>,
                    !.currentTurnRef = <<>>,
                    !.isTurnActiveRef = FALSE,
                    !.turnStartTimeRef = 0,
                    !.nStarts = k])
    IN  IF ~s.apiKey
        THEN stopEverything(SetError([reset EXCEPT !.pc[k] = "done"],
                                     "API Key not found"))
        ELSE [reset EXCEPT !.ctx[k] = "open",
                           !.audioContextRef = k,
                           !.pc[k] = "gum"]

\* Mutant of gumResolved: the audio graph is wired when connect is called,
\* not in onopen, so frames queue on the promise before the connection opens.
gumResolved_Wired(s, k) ==
    [s EXCEPT !.stream[k] = "live",
              !.streamRef = k,
              !.conn[k] = "connecting",
              !.pc[k] = "done",
              !.sourceRef = k,
              !.processorRef = k,
              !.srcOn[k] = TRUE,
              !.procOn[k] = TRUE]

\* getUserMedia resolved: startRecording resumes and calls ai.live.connect.
gumResolved(s, k) ==
    [s EXCEPT !.stream[k] = "live",
              !.streamRef = k,
              !.conn[k] = "connecting",
              !.pc[k] = "done"]

\* getUserMedia rejected: the catch block of startRecording.
gumRejected(s, k) ==
    stopEverything(SetError([s EXCEPT !.pc[k] = "done"], "Permission denied"))

\* The onopen callback of attempt k. createMediaStreamSource on a closed
\* AudioContext either throws (the rest of the callback is skipped) or
\* succeeds, depending on the browser.
onopen(s, k, throws) ==
    LET s1 == [SetIsRecording(s, TRUE) EXCEPT
                    !.conn[k] = "open",
                    !.opened[k] = TRUE,
                    !.timer[k] = TRUE,
                    !.timerRef = k]
    IN  IF throws THEN s1
        ELSE [s1 EXCEPT !.sourceRef = k,
                        !.processorRef = k,
                        !.srcOn[k] = TRUE,
                        !.procOn[k] = TRUE]

\* The audio graph of attempt k delivers frames to processor.onaudioprocess.
Wired(s, k) ==
    s.stream[k] = "live" /\ s.ctx[k] = "open" /\ s.srcOn[k] /\ s.procOn[k]

\* The stream of attempt k produces a frame: processor.onaudioprocess runs when
\* the graph is wired; its sessionPromise.then callback runs at once when the
\* promise is resolved and is queued otherwise.
audioFrame(s, k) ==
    LET s1 == [s EXCEPT !.nFrames = @ + 1,
                        !.capturedOpen[k] = IF s.opened[k] THEN @ + 1 ELSE @]
    IN  IF ~Wired(s, k) THEN s1
        ELSE IF s.resolved[k]
        THEN [s1 EXCEPT !.sessionRef = k, !.sent[k] = @ + 1]
        ELSE [s1 EXCEPT !.pending[k] = @ + 1]

\* sessionPromise of attempt k resolves: the queued then-callbacks run.
sessionResolved(s, k) ==
    LET s1 == [s EXCEPT !.resolved[k] = TRUE]
    IN  IF s.pending[k] = 0 THEN s1
        ELSE [s1 EXCEPT !.sessionRef = k,
                        !.sent[k] = @ + s.pending[k],
                        !.pending[k] = 0]

\* Mutant of tick: the ref is counted up but setElapsedTime is not called.
tick_RefOnly(s, k) ==
    [s EXCEPT !.elapsedTimeRef = @ + 1]

\* One tick of the setInterval callback of attempt k.
tick(s, k) ==
    [s EXCEPT !.elapsedTime = IF s.mounted THEN @ + 1 ELSE @,
              !.elapsedTimeRef = @ + 1]

\* Mutant of onmessage: every partial text records the turn start again.
onmessage_Restart(s, text, tc) ==
    LET starts == text # <<>> /\ ~s.isTurnActiveRef
        lastChunk == s.chunksRef[Len(s.chunksRef)]
        strip == /\ starts
                 /\ Len(s.chunksRef) > 0
                 /\ Len(lastChunk.text) > MinOverlap
                 /\ StartsWith(text, lastChunk.text)
        text1 == IF strip THEN Substring(text, Len(lastChunk.text)) ELSE text
        s1 == IF text = <<>> THEN s
              ELSE [s EXCEPT
                      !.isTurnActiveRef = TRUE,
                      !.turnStartTimeRef = s.elapsedTimeRef,
                      !.currentTurnRef = @ \o text1]
        s2 == IF ~tc THEN s1
              ELSE [s1 EXCEPT
                      !.chunksRef =
                          IF Trim(s1.currentTurnRef) # <<>>
                          THEN pushChunk(@, [timestamp |-> s1.turnStartTimeRef,
                                             text |-> Trim(s1.currentTurnRef)])
                          ELSE @,
                      !.currentTurnRef = <<>>,
                      !.isTurnActiveRef = FALSE]
        needsUpdate == text # <<>> \/ tc
    IN  IF needsUpdate
        THEN SetTranscript(s2, FullText(s2.chunksRef, s2.currentTurnRef))
        ELSE s2

\* The onmessage callback: text is inputTranscription.text (<<>> when absent
\* or empty), tc is turnComplete.
onmessage(s, text, tc) ==
    LET starts == text # <<>> /\ ~s.isTurnActiveRef
        lastChunk == s.chunksRef[Len(s.chunksRef)]
        strip == /\ starts
                 /\ Len(s.chunksRef) > 0
                 /\ Len(lastChunk.text) > MinOverlap
                 /\ StartsWith(text, lastChunk.text)
        text1 == IF strip THEN Substring(text, Len(lastChunk.text)) ELSE text
        s1 == IF text = <<>> THEN s
              ELSE [s EXCEPT
                      !.isTurnActiveRef = TRUE,
                      !.turnStartTimeRef = IF starts THEN s.elapsedTimeRef ELSE @,
                      !.currentTurnRef = @ \o text1]
        s2 == IF ~tc THEN s1
              ELSE [s1 EXCEPT
                      !.chunksRef =
                          IF Trim(s1.currentTurnRef) # <<>>
                          THEN pushChunk(@, [timestamp |-> s1.turnStartTimeRef,
                                             text |-> Trim(s1.currentTurnRef)])
                          ELSE @,
                      !.currentTurnRef = <<>>,
                      !.isTurnActiveRef = FALSE]
        needsUpdate == text # <<>> \/ tc
    IN  IF needsUpdate
        THEN SetTranscript(s2, FullText(s2.chunksRef, s2.currentTurnRef))
        ELSE s2

\* The onclose callback. A WebSocket error event is followed by a close event.
onclose(s, k) ==
    SetIsRecording(
        [s EXCEPT !.conn[k] = IF @ = "errored" THEN "failed" ELSE "closed"],
        FALSE)

\* Mutant of onerror: the failure also discards the reconciled transcript.
onerror_Discard(s, k) ==
    stopEverything(SetError([s EXCEPT !.conn[k] = "errored",
                                      !.chunksRef = <<>>,
                                      !.currentTurnRef = <<>>],
                            "Connection error. Please try again."))

\* The onerror callback (a WebSocket error event is not an Error instance).
onerror(s, k) ==
    stopEverything(SetError([s EXCEPT !.conn[k] = "errored"],
                            "Connection error. Please try again."))

\* The cleanup of the mount effect, run when the Recorder unmounts.
unmount(s) == [stopPreview(stopPreview(stopEverything(s))) EXCEPT !.mounted = FALSE]

\* initDevices or the microphone select sets selectedDeviceId.
setSelectedDeviceId(s, d) ==
    IF s.mounted THEN [s EXCEPT !.selectedDeviceId = d] ELSE s

\* updateVolume of the p-th startPreview: it ends when the stream the ref
\* points to is not active, and requests its next animation frame otherwise.
updateVolume(s, p) ==
    IF s.previewStreamRef = 0 \/ s.pstream[s.previewStreamRef] # "live"
    THEN [s EXCEPT !.praf[p] = FALSE]
    ELSE [s EXCEPT !.praf[p] = TRUE, !.previewAnimationFrameRef = p]

\* getUserMedia of the p-th startPreview resolved: startPreview resumes.
previewResolved(s, p) ==
    updateVolume([s EXCEPT !.pstream[p] = "live",
                           !.previewStreamRef = p,
                           !.pctx[p] = "open",
                           !.previewContextRef = p],
                 p)

\* getUserMedia of the p-th startPreview rejected: its catch block.
previewRejected(s, p) == [s EXCEPT !.pstream[p] = "failed"]

\* Mutant of commitInFlight: the chunk text is the buffer as it is, untrimmed.
commitInFlight_Raw(s) ==
    IF Trim(s.currentTurnRef) # <<>>
    THEN [s EXCEPT !.chunksRef =
            pushChunk(@, [timestamp |-> IF s.turnStartTimeRef # 0
                                        THEN s.turnStartTimeRef
                                        ELSE s.elapsedTimeRef,
                          text |-> s.currentTurnRef])]
    ELSE s

\* The implicit commit of handleFinish: the in-flight turn becomes a chunk.
commitInFlight(s) ==
    IF Trim(s.currentTurnRef) # <<>>
    THEN [s EXCEPT !.chunksRef =
            pushChunk(@, [timestamp |-> IF s.turnStartTimeRef # 0
                                        THEN s.turnStartTimeRef
                                        ELSE s.elapsedTimeRef,
                          text |-> Trim(s.currentTurnRef)])]
    ELSE s

\* Mutant of handleFinish: the result is delivered without the confirm().
handleFinish_NoConfirm(s, confirmed, found) ==
    LET s1 == IF s.isRecording THEN stopEverything(s) ELSE s
        s2 == [commitInFlight(s1) EXCEPT !.nFinish = @ + 1]
        s3 == [s2 EXCEPT
                 !.nResults = @ + 1,
                 !.lastResult = [duration |-> s.elapsedTime,
                                 text |-> JoinTexts(s2.chunksRef),
                                 chunks |-> s2.chunksRef]]
    IN  IF found THEN unmount(s3) ELSE s3

\* handleFinish. confirmed answers the confirm() dialog; found tells whether
\* App.handleRecordingFinished saves the lecture and leaves the record view
\* (which unmounts the Recorder) or returns early.
handleFinish(s, confirmed, found) ==
    LET s1 == IF s.isRecording THEN stopEverything(s) ELSE s
        s2 == [commitInFlight(s1) EXCEPT !.nFinish = @ + 1]
        s3 == [s2 EXCEPT
                 !.nResults = @ + 1,
                 !.lastResult = [duration |-> s.elapsedTime,
                                 text |-> JoinTexts(s2.chunksRef),
                                 chunks |-> s2.chunksRef]]
    IN  IF Len(s2.chunksRef) = 0 /\ ~confirmed THEN s2
        ELSE IF found THEN unmount(s3)
        ELSE s3

\* --------------------------------------------------------------- actions

Init ==
    /\ mounted = TRUE
    /\ apiKey \in BOOLEAN
    /\ isRecording = FALSE
    /\ transcript = <<>>
    /\ elapsedTime = 0
    /\ error = "null"
    /\ chunksRef = <<>>
    /\ currentTurnRef = <<>>
    /\ turnStartTimeRef = 0
    /\ isTurnActiveRef = FALSE
    /\ elapsedTimeRef = 0
    /\ streamRef = 0
    /\ audioContextRef = 0
    /\ processorRef = 0
    /\ sourceRef = 0
    /\ sessionRef = 0
    /\ timerRef = 0
    /\ pc = [k \in Attempts |-> "idle"]
    /\ ctx = [k \in Attempts |-> "none"]
    /\ stream = [k \in Attempts |-> "none"]
    /\ srcOn = [k \in Attempts |-> FALSE]
    /\ procOn = [k \in Attempts |-> FALSE]
    /\ timer = [k \in Attempts |-> FALSE]
    /\ conn = [k \in Attempts |-> "none"]
    /\ opened = [k \in Attempts |-> FALSE]
    /\ resolved = [k \in Attempts |-> FALSE]
    /\ pending = [k \in Attempts |-> 0]
    /\ sent = [k \in Attempts |-> 0]
    /\ capturedOpen = [k \in Attempts |-> 0]
    /\ nStarts = 0
    /\ nMsgs = 0
    /\ nFrames = 0
    /\ nFinish = 0
    /\ nResults = 0
    /\ lastResult = NoResult
    /\ selectedDeviceId = ""
    /\ previewStreamRef = 0
    /\ previewContextRef = 0
    /\ previewAnimationFrameRef = 0
    /\ pstream = [p \in Previews |-> "none"]
    /\ pctx = [p \in Previews |-> "none"]
    /\ praf = [p \in Previews |-> FALSE]
    /\ nPreviews = 0

\* toggleRecording while isRecording is false.
StartWithin(n) ==
    /\ mounted
    /\ ~isRecording
    /\ nStarts < n
    /\ Commit(startRecording(Cur, nStarts + 1))

ToggleStart == StartWithin(MaxStarts)

\* The same once every earlier start has run to its end: its getUserMedia
\* is settled and its connection has had its close or error.
ToggleStartS ==
    /\ \A j \in Attempts :
          pc[j] # "gum" /\ conn[j] \notin {"connecting", "open", "errored"}
    /\ StartWithin(MaxSessions)

\* toggleRecording while isRecording is true.
ToggleStop ==
    /\ mounted
    /\ isRecording
    /\ Commit(stopEverything(Cur))

GumResolved ==
    \E k \in Attempts :
        /\ pc[k] = "gum"
        /\ Commit(gumResolved(Cur, k))

GumRejected ==
    \E k \in Attempts :
        /\ pc[k] = "gum"
        /\ Commit(gumRejected(Cur, k))

OnOpen ==
    \E k \in Attempts :
        /\ conn[k] = "connecting"
        /\ \E throws \in (IF ctx[k] = "closed" THEN BOOLEAN ELSE {FALSE}) :
              Commit(onopen(Cur, k, throws))

SessionResolved ==
    \E k \in Attempts :
        /\ opened[k]
        /\ ~resolved[k]
        /\ Commit(sessionResolved(Cur, k))

AudioFrame ==
    \E k \in Attempts :
        /\ stream[k] = "live"
        /\ nFrames < MaxFrames
        /\ Commit(audioFrame(Cur, k))

Tick ==
    \E k \in Attempts :
        /\ timer[k]
        /\ elapsedTimeRef < MaxElapsed
        /\ Commit(tick(Cur, k))

MessageFrom(T) ==
    \E k \in Attempts :
        /\ conn[k] = "open"
        /\ nMsgs < MaxMsgs
        /\ \E text \in T, tc \in BOOLEAN :
              /\ text # <<>> \/ tc
              /\ Commit([onmessage(Cur, text, tc) EXCEPT !.nMsgs = @ + 1])

OnMessage == MessageFrom(Texts)

OnMessageD == MessageFrom(TextsD)

OnClose ==
    \E k \in Attempts :
        /\ conn[k] \in {"open", "errored"}
        /\ Commit(onclose(Cur, k))

OnError ==
    \E k \in Attempts :
        /\ conn[k] \in {"connecting", "open"}
        /\ Commit(onerror(Cur, k))

\* The Finish & Save button, disabled while the transcript is empty and
\* nothing is being recorded.
FinishEnabled == mounted /\ ~(transcript = <<>> /\ ~isRecording)

FinishWithin(n) ==
    /\ FinishEnabled
    /\ nFinish < n
    /\ \E confirmed \in BOOLEAN, found \in BOOLEAN :
          Commit(handleFinish(Cur, confirmed, found))

HandleFinish == FinishWithin(MaxFinish)

HandleFinishF == FinishWithin(MaxRefinish)

\* The Cancel button: onCancel leaves the record view, the Recorder unmounts.
Cancel ==
    /\ mounted
    /\ Commit(unmount(Cur))

\* initDevices picks the initial device after the mount, or the user picks
\* another one in the select, shown while there is no error and no transcript.
SelectDevice ==
    \E d \in Devices :
        /\ mounted
        /\ d # selectedDeviceId
        /\ selectedDeviceId = "" \/ (error = "null" /\ transcript = <<>>)
        /\ Commit(setSelectedDeviceId(Cur, d))

PreviewResolved ==
    \E p \in Previews :
        /\ pstream[p] = "pending"
        /\ Commit(previewResolved(Cur, p))

PreviewRejected ==
    \E p \in Previews :
        /\ pstream[p] = "pending"
        /\ Commit(previewRejected(Cur, p))

\* An animation frame of the p-th preview fires.
UpdateVolume ==
    \E p \in Previews :
        /\ praf[p]
        /\ Commit(updateVolume(Cur, p))

\* The handlers and callbacks that follow a start.
Lifecycle ==
    \/ ToggleStop
    \/ GumResolved
    \/ GumRejected
    \/ OnOpen
    \/ OnClose
    \/ OnError
    \/ HandleFinish
    \/ Cancel

\* The controller with its timer and the transcription events. The audio
\* path (AudioFrame, SessionResolved) writes sessionRef, pending, sent,
\* capturedOpen and nFrames only, none of which these actions read, and is
\* checked apart under SpecA.
Next ==
    \/ ToggleStart
    \/ Lifecycle
    \/ Tick
    \/ OnMessage

Spec == Init /\ [][Next]_vars

\* The same with one start at a time: no start overlaps an earlier one.
NextS ==
    \/ ToggleStartS
    \/ Lifecycle
    \/ Tick
    \/ OnMessage

SpecS == Init /\ [][NextS]_vars

\* The controller with the audio path.
NextA ==
    \/ ToggleStartS
    \/ Lifecycle
    \/ AudioFrame
    \/ SessionResolved

SpecA == Init /\ [][NextA]_vars

\* The controller of SpecS with the Finish & Save button clicked again.
NextF ==
    \/ ToggleStartS
    \/ ToggleStop
    \/ GumResolved
    \/ GumRejected
    \/ OnOpen
    \/ OnClose
    \/ OnError
    \/ Cancel
    \/ HandleFinishF
    \/ Tick
    \/ OnMessage

SpecF == Init /\ [][NextF]_vars

\* The controller of SpecS with the input level monitor (preview).
NextP ==
    \/ SelectDevice
    \/ PreviewResolved
    \/ PreviewRejected
    \/ UpdateVolume
    \/ ToggleStartS
    \/ Lifecycle
    \/ OnMessage

SpecP == Init /\ [][NextP]_vars

\* A session that opens and receives the transcription texts of TextsD.
NextD ==
    \/ ToggleStartS
    \/ GumResolved
    \/ OnOpen
    \/ Tick
    \/ OnMessageD

SpecD == Init /\ [][NextD]_vars

\* The same session with the Finish button.
NextR ==
    \/ NextD
    \/ HandleFinishF

SpecR == Init /\ [][NextR]_vars

\* ---------------------------------------------------------------- claims

LiveStreams == { k \in Attempts : stream[k] = "live" }
OpenContexts == { k \in Attempts : ctx[k] = "open" }
ConnectedNodes == { k \in Attempts : srcOn[k] \/ procOn[k] }
RunningTimers == { k \in Attempts : timer[k] }
OpenConnections == { k \in Attempts : conn[k] \in {"connecting", "open"} }

LastChunk(chunks) == chunks[Len(chunks)]

IsPrefix(s, t) == Len(s) <= Len(t) /\ SubSeq(t, 1, Len(s)) = s

\* An exit path of a session that reached Open: user stop, handleFinish while
\* recording, onerror of an open connection, unmount.
ExitStep ==
    /\ \E k \in Attempts : opened[k]
    /\ \/ ToggleStop
       \/ isRecording /\ HandleFinish
       \/ OnError /\ \E k \in Attempts : conn[k] = "open" /\ conn'[k] = "errored"
       \/ Cancel

(* C1: after every exit path of a session that reached Open (user stop,    *)
(* handleFinish while recording, onerror, unmount) no recording stream is  *)
(* live, no AudioContext is open and no source or processor node is        *)
(* connected.                                                              *)
C1_ExitReleasesAudio ==
    [][ExitStep => /\ LiveStreams' = {}
                   /\ OpenContexts' = {}
                   /\ ConnectedNodes' = {}]_vars

(* C2: after stop, finish, cancel or unmount no connection to the          *)
(* transcription service is connecting or open.                            *)
C2_StopClosesConnection ==
    [][(ToggleStop \/ HandleFinish \/ Cancel) => OpenConnections' = {}]_vars

(* C3: once the Recorder is unmounted (cancel), no late completion of a    *)
(* suspended start makes a stream live, starts a timer, wires an audio     *)
(* graph or opens a connection.                                            *)
C3_NoResurrection ==
    [][~mounted => /\ LiveStreams' \subseteq LiveStreams
                   /\ RunningTimers' \subseteq RunningTimers
                   /\ ConnectedNodes' \subseteq ConnectedNodes
                   /\ OpenConnections' \subseteq OpenConnections]_vars

(* C4: every step other than a start leaves committedChunks a prefix of    *)
(* its next value: entries are only appended, never changed, removed or    *)
(* reordered.                                                              *)
C4_AppendOnly ==
    [][nStarts' = nStarts => IsPrefix(chunksRef, chunksRef')]_vars

\* A chunk committed by turnComplete is followed by one committed by finish.
C4_Witness ==
    /\ Len(chunksRef) = 2
    /\ nFinish = 1
    /\ chunksRef[1] # chunksRef[2]

(* C5: a handleFinish with a buffer that is non-empty after trimming       *)
(* delivers a result whose chunks are the committed chunks followed by     *)
(* exactly one chunk whose text is the trimmed buffer.                     *)
C5_ImplicitCommit ==
    [][(nFinish' = nFinish + 1 /\ Trim(currentTurnRef) # <<>>) =>
          /\ nResults' = nResults + 1
          /\ Len(lastResult'.chunks) = Len(chunksRef) + 1
          /\ SubSeq(lastResult'.chunks, 1, Len(chunksRef)) = chunksRef
          /\ LastChunk(lastResult'.chunks).text = Trim(currentTurnRef)
          /\ lastResult'.text = JoinTexts(lastResult'.chunks)]_vars

\* A result of two chunks, the second the trimmed buffer that was in flight.
C5_Witness ==
    /\ nResults = 1
    /\ Len(lastResult.chunks) = 2
    /\ currentTurnRef # <<>>
    /\ currentTurnRef # Trim(currentTurnRef)
    /\ lastResult.chunks[2].text = Trim(currentTurnRef)

(* C6: every committed chunk, by turnComplete or by finish, has as its     *)
(* timestamp the elapsed seconds at which its turn became active, a turn   *)
(* that became active at elapsed 0 included.                               *)
C6_TimestampIsTurnStart ==
    [][(nStarts' = nStarts /\ Len(chunksRef') = Len(chunksRef) + 1) =>
          LastChunk(chunksRef').timestamp =
              IF isTurnActiveRef THEN turnStartTimeRef ELSE elapsedTimeRef]_vars

(* C7: no frame is sent or queued on a connection before its Open          *)
(* transition, and the frames sent never exceed the frames captured after  *)
(* Open.                                                                   *)
C7_NoAudioBeforeOpen ==
    \A k \in Attempts :
        /\ ~opened[k] => sent[k] = 0 /\ pending[k] = 0
        /\ sent[k] + pending[k] <= capturedOpen[k]

\* A frame captured before Open was dropped and a later one was sent.
C7_Witness ==
    \E k \in Attempts :
        /\ sent[k] = 1
        /\ capturedOpen[k] = 1
        /\ nFrames = 2

RefsNull(s) ==
    /\ s.processorRef = 0
    /\ s.sourceRef = 0
    /\ s.audioContextRef = 0
    /\ s.streamRef = 0
    /\ s.sessionRef = 0
    /\ s.timerRef = 0

C9_ErrorPreservesTranscript ==
    [][/\ \A k \in Attempts :
            (conn[k] \in {"connecting", "open"} /\ conn'[k] = "errored") =>
                chunksRef' = chunksRef /\ currentTurnRef' = currentTurnRef
       /\ ( /\ nFinish' = nFinish + 1
            /\ nStarts > 0
            /\ conn[nStarts] \in {"errored", "failed"}
            /\ chunksRef # <<>> ) =>
                /\ nResults' = nResults + 1
                /\ IsPrefix(chunksRef, lastResult'.chunks)]_vars

\* The error was surfaced and a result with a committed chunk was delivered.
C9_Witness ==
    /\ error = "Connection error. Please try again."
    /\ nStarts > 0
    /\ conn[nStarts] \in {"errored", "failed"}
    /\ nResults = 1
    /\ Len(lastResult.chunks) = 2
    /\ lastResult.chunks = chunksRef

(* C10: a start that fails (API key missing, getUserMedia rejected)        *)
(* surfaces an error and leaves the controller not recording, with the     *)
(* attempt's AudioContext not open, no stream, no connection and no timer  *)
(* of it, and no AudioContext ref.                                         *)
C10_FailedStartIsClean ==
    [][\A k \in Attempts :
          (pc[k] # "done" /\ pc'[k] = "done" /\ conn'[k] = "none") =>
              /\ mounted => error' # "null"
              /\ ~isRecording'
              /\ ctx'[k] # "open"
              /\ stream'[k] # "live"
              /\ ~timer'[k]
              /\ audioContextRef' = 0]_vars

(* C12: when the remote side closes an Open connection (onclose), the      *)
(* session's resources are released as on stop: its stream is not live,    *)
(* its AudioContext is not open and its source and processor nodes are     *)
(* not connected.                                                          *)
C12_RemoteCloseReleases ==
    [][\A k \in Attempts :
          (conn[k] = "open" /\ conn'[k] = "closed") =>
              /\ stream'[k] # "live"
              /\ ctx'[k] # "open"
              /\ ~srcOn'[k]
              /\ ~procOn'[k]]_vars

(* C13: the duration of a delivered RecordingResult is the elapsed-seconds *)
(* value of the timer at the moment of the finish, whatever the timestamps *)
(* of the chunks are.                                                      *)
C13_DurationRoundTrip ==
    [][nResults' = nResults + 1 =>
          lastResult'.duration = elapsedTimeRef]_vars

\* A result whose duration is a tick later than its last chunk's timestamp.
C13_Witness ==
    /\ nResults = 1
    /\ lastResult.duration = MaxElapsed
    /\ lastResult.chunks # <<>>
    /\ LastChunk(lastResult.chunks).timestamp < lastResult.duration

(* C19: elapsed-seconds changes only by a start, which makes it 0, or by a *)
(* tick, which adds exactly 1, and a tick changes it only while the last   *)
(* started session is Open: not after stop, error, remote close, unmount.  *)
C19_TimerScope ==
    [][/\ nStarts' # nStarts => elapsedTimeRef' = 0
       /\ (nStarts' = nStarts /\ elapsedTimeRef' # elapsedTimeRef) =>
              /\ elapsedTimeRef' = elapsedTimeRef + 1
              /\ conn[nStarts] = "open"]_vars

(* C17: a RecordingResult is handed to onFinish one at a time and never    *)
(* once the Recorder is cancelled or otherwise unmounted, and the first    *)
(* session delivers at most one result, whatever finish, cancel and stop   *)
(* actions are taken on it.                                                *)
C17_ExactlyOnce ==
    [][nResults' # nResults =>
          /\ mounted
          /\ nResults' = nResults + 1
          /\ nStarts = 1 => nResults = 0]_vars

(* C18: a handleFinish that finds no chunk after the implicit commit       *)
(* delivers no result when the confirm() is declined, and when it is       *)
(* accepted delivers one result with no chunks and empty text.             *)
C18_EmptyCheckpoint ==
    (FinishEnabled /\ chunksRef = <<>> /\ Trim(currentTurnRef) = <<>>) =>
        \A found \in BOOLEAN :
            LET declined == handleFinish(Cur, FALSE, found)
                accepted == handleFinish(Cur, TRUE, found)
            IN  /\ declined.nResults = nResults
                /\ declined.lastResult = lastResult
                /\ declined.mounted
                /\ accepted.nResults = nResults + 1
                /\ accepted.lastResult.chunks = <<>>
                /\ accepted.lastResult.text = <<>>

\* An Open session was finished with an empty transcript and the confirm()
\* was declined: the session is stopped and no result was delivered.
C18_Witness ==
    /\ mounted
    /\ nStarts > 0
    /\ opened[nStarts]
    /\ nFinish = 1
    /\ nResults = 0
    /\ chunksRef = <<>>
    /\ ~isRecording

(* C14: a handleFinish with one committed chunk and a second turn still    *)
(* open delivers a result of exactly two chunks in turn order, the first   *)
(* the committed one and the second with the second turn's start time and  *)
(* its trimmed text, and a text that is the two chunk texts joined by a    *)
(* single space.                                                           *)
C14_ResultComposition ==
    [][(/\ nFinish' = nFinish + 1
        /\ Len(chunksRef) = 1
        /\ isTurnActiveRef
        /\ Trim(currentTurnRef) # <<>>) =>
          /\ nResults' = nResults + 1
          /\ lastResult'.chunks =
                << chunksRef[1],
                   [timestamp |-> turnStartTimeRef,
                    text |-> Trim(currentTurnRef)] >>
          /\ lastResult'.text =
                chunksRef[1].text \o <<" ">> \o Trim(currentTurnRef)]_vars

\* The first partial text of a new turn that repeats the last committed
\* chunk's text as a prefix: the texts of T that do so in the current state.
Repeats(T) ==
    IF isTurnActiveRef \/ chunksRef = <<>> THEN {}
    ELSE { text \in T \ {<<>>} : StartsWith(text, LastChunk(chunksRef).text) }

(* C15: when the first partial text of a new turn repeats the last         *)
(* committed chunk's text (of 6 or more characters) as a prefix, the       *)
(* in-flight text after the event is exactly the non-repeated remainder:   *)
(* for "abcdef" committed and "abcdef g" received it is "g".               *)
C15_DedupResult ==
    \A text \in Repeats(TextsD) :
        Len(LastChunk(chunksRef).text) > 5 =>
            onmessage(Cur, text, FALSE).currentTurnRef =
                currentTurnRef \o
                    Trim(Substring(text, Len(LastChunk(chunksRef).text)))

(* C16: the repeated prefix is stripped from the first partial text of a   *)
(* new turn when the last committed chunk it repeats is 5 or more          *)
(* characters long, a chunk of exactly 5 characters included, and is not   *)
(* stripped when it is shorter.                                            *)
C16_DedupThreshold ==
    \A text \in Repeats(TextsD) :
        LET last == LastChunk(chunksRef).text
            after == onmessage(Cur, text, FALSE).currentTurnRef
        IN  IF Len(last) >= 5
            THEN after = currentTurnRef \o Substring(text, Len(last))
            ELSE after = currentTurnRef \o text

\* Whitespace and its removal, stated apart from Trim.
IsBlank(s) == \A i \in 1..Len(s) : s[i] = " "

IsTrimOf(t, s) ==
    \E i \in 1..(Len(s) + 1), j \in 0..Len(s) :
        /\ t = SubSeq(s, i, j)
        /\ IsBlank(SubSeq(s, 1, i - 1))
        /\ IsBlank(SubSeq(s, j + 1, Len(s)))
        /\ t # <<>> => t[1] # " " /\ t[Len(t)] # " "

(* C20: a turn-complete event commits one chunk, with the turn's start     *)
(* time and the buffer without its leading and trailing whitespace, iff    *)
(* the in-flight buffer holds more than whitespace; otherwise it commits   *)
(* nothing; in both cases the buffer is empty and the turn inactive after. *)
C20_TurnComplete ==
    \A text \in TextsD :
        LET before == IF text = <<>> THEN Cur ELSE onmessage(Cur, text, FALSE)
            after == onmessage(Cur, text, TRUE)
        IN  /\ after.currentTurnRef = <<>>
            /\ ~after.isTurnActiveRef
            /\ IF IsBlank(before.currentTurnRef)
               THEN after.chunksRef = chunksRef
               ELSE /\ Len(after.chunksRef) = Len(chunksRef) + 1
                    /\ IsPrefix(chunksRef, after.chunksRef)
                    /\ LastChunk(after.chunksRef).timestamp =
                            before.turnStartTimeRef
                    /\ IsTrimOf(LastChunk(after.chunksRef).text,
                                before.currentTurnRef)

\* A turn that started after the first tick was built by two events and
\* committed by the turn-complete of the second.
C20_Witness ==
    /\ chunksRef = << [timestamp |-> 1, text |-> Two] >>
    /\ currentTurnRef = <<>>
    /\ ~isTurnActiveRef
    /\ elapsedTimeRef = 1
    /\ nMsgs = 2

LivePreviews == { p \in Previews : pstream[p] = "live" }

(* C11: at no time are a preview stream and a recording stream live        *)
(* together, whatever the interleaving of the preview's getUserMedia, the  *)
(* device selection, transcript changes and the start.                     *)
C11_ExclusiveMicrophone ==
    LivePreviews = {} \/ LiveStreams = {}

\* Texts joined by single spaces, and two texts with a separating space that
\* is omitted when either is empty, stated apart from JoinTexts and FullText.
RECURSIVE JoinedTexts(_)
JoinedTexts(chunks) ==
    IF Len(chunks) = 0 THEN <<>>
    ELSE IF Len(chunks) = 1 THEN chunks[1].text
    ELSE JoinedTexts(SubSeq(chunks, 1, Len(chunks) - 1))
             \o <<" ">> \o chunks[Len(chunks)].text

Separated(a, b) ==
    IF a = <<>> \/ b = <<>> THEN a \o b ELSE a \o <<" ">> \o b

(* C21: after every processed transcription event the visible transcript  *)
(* is the committed chunk texts joined by single spaces, one separating    *)
(* space, and the in-flight text, the separating space being omitted when  *)
(* either side is empty.                                                   *)
C21_LiveTranscript ==
    [][(nMsgs' = nMsgs + 1 /\ mounted) =>
          transcript' = Separated(JoinedTexts(chunksRef'), currentTurnRef')]_vars

\* A transcript of a committed chunk, the separating space and an open turn.
C21_Witness ==
    /\ nMsgs = 2
    /\ Len(chunksRef) = 1
    /\ currentTurnRef = Two
    /\ transcript = chunksRef[1].text \o <<" ">> \o Two

(* C22: a non-empty partial text that arrives while no turn is active      *)
(* makes the turn active and records the current elapsed seconds as its    *)
(* start; one that arrives while the turn is active is appended verbatim   *)
(* to the in-flight buffer and leaves the turn start unchanged; neither    *)
(* changes committedChunks.                                                *)
C22_TurnStartAndAccumulation ==
    \A text \in TextsD \ {<<>>} :
        LET after == onmessage(Cur, text, FALSE)
        IN  /\ after.isTurnActiveRef
            /\ after.chunksRef = chunksRef
            /\ IF isTurnActiveRef
               THEN /\ after.turnStartTimeRef = turnStartTimeRef
                    /\ after.currentTurnRef = currentTurnRef \o text
               ELSE after.turnStartTimeRef = elapsedTimeRef

\* A turn that started before the tick and got its second partial text.
C22_Witness ==
    /\ isTurnActiveRef
    /\ turnStartTimeRef = 0
    /\ elapsedTimeRef = 1
    /\ nMsgs = 2
    /\ chunksRef = <<>>
    /\ currentTurnRef = Two \o <<" ">>

OpenPreviewContexts == { p \in Previews : pctx[p] = "open" }
PollingLoops == { p \in Previews : praf[p] }

(* C23: at most one preview stream is live, and no preview stream or       *)
(* preview AudioContext is alive but the one the preview refs point to;    *)
(* while recording and once the view is unmounted no preview stream, no    *)
(* preview AudioContext and no polling loop is alive, even when a          *)
(* preview's getUserMedia settles after the teardown or after another      *)
(* preview was requested.                                                  *)
C23_PreviewTeardown ==
    /\ Cardinality(LivePreviews) <= 1
    /\ LivePreviews \subseteq {previewStreamRef}
    /\ OpenPreviewContexts \subseteq {previewContextRef}
    /\ (isRecording \/ ~mounted) =>
          /\ LivePreviews = {}
          /\ OpenPreviewContexts = {}
          /\ PollingLoops = {}

(* C24: for every interleaving of starts, stops and asynchronous           *)
(* completions at most one recording stream is live, at most one           *)
(* connection is connecting or open and at most one timer runs, and the    *)
(* live stream and the running timer are the ones the refs point to, so    *)
(* that stopEverything releases them.                                      *)
C24_SingleLiveSession ==
    /\ Cardinality(LiveStreams) <= 1
    /\ Cardinality(OpenConnections) <= 1
    /\ Cardinality(RunningTimers) <= 1
    /\ LiveStreams \subseteq {streamRef}
    /\ RunningTimers \subseteq {timerRef}

(* C25: a transcription event that arrives from a connection whose session *)
(* has been stopped (its stream was released by stopEverything) changes    *)
(* neither committedChunks, the in-flight buffer, the turn flags nor the   *)
(* live transcript.                                                        *)
C25_NoReconciliationAfterStop ==
    [][(/\ nMsgs' = nMsgs + 1
        /\ \A k \in Attempts : conn[k] = "open" => stream[k] = "stopped") =>
          UNCHANGED << chunksRef, currentTurnRef, isTurnActiveRef,
                       turnStartTimeRef, transcript >>]_vars

(* C27: once the stream of a session is stopped (stop, error, unmount) no  *)
(* further audio frame is sent on that session's connection and the        *)
(* session ref is not set to it again, frames whose send was queued on the *)
(* connection promise before the stop included.                            *)
C27_NoAudioAfterStop ==
    [][\A k \in Attempts :
          stream[k] = "stopped" =>
              /\ sent'[k] = sent[k]
              /\ sessionRef' # k]_vars

(* C26: every start resets the session state before the credential check   *)
(* and the device acquisition: right after the start step the chunk list    *)
(* and the in-flight buffer are empty, the turn is inactive, the live       *)
(* transcript is empty and the elapsed seconds are 0, whatever the earlier  *)
(* session left behind and whether or not the start then fails.             *)
C26_StartResets ==
    [][nStarts' = nStarts + 1 =>
          /\ chunksRef' = <<>>
          /\ currentTurnRef' = <<>>
          /\ ~isTurnActiveRef'
          /\ transcript' = <<>>
          /\ elapsedTimeRef' = 0
          /\ elapsedTime' = 0]_vars

\* A second start has just run, after a session that received its messages:
\* nothing of that session is left.
C26_Witness ==
    /\ nStarts = 2
    /\ pc[2] = "gum"
    /\ nMsgs = MaxMsgs
    /\ conn[1] = "closed"
    /\ chunksRef = <<>>
    /\ transcript = <<>>
    /\ elapsedTimeRef = 0

(* C28: finish is idempotent on the chunk sequence: when Finish is clicked  *)
(* and, with the Recorder still shown and the button still enabled, clicked *)
(* again with no start and no event in between, the chunk sequence after    *)
(* the second call equals the one after the first.                          *)
C28_FinishIdempotent ==
    \A c1 \in BOOLEAN, c2 \in BOOLEAN :
        LET once == handleFinish(Cur, c1, FALSE)
            twice == handleFinish(once, c2, FALSE)
        IN  (/\ FinishEnabled
             /\ once.mounted
             /\ ~(once.transcript = <<>> /\ ~once.isRecording))
                => twice.chunksRef = once.chunksRef

(* C29: in every reachable state each committed chunk has a text that is   *)
(* not empty and neither starts nor ends with whitespace, whether a         *)
(* turn-complete event or finish committed it.                              *)
C29_CleanChunks ==
    \A i \in 1..Len(chunksRef) :
        LET text == chunksRef[i].text
        IN  /\ text # <<>>
            /\ text[1] # " "
            /\ text[Len(text)] # " "

\* Finish has committed the in-flight turn, whose buffer starts with
\* whitespace.
C29_Witness ==
    /\ nFinish >= 1
    /\ currentTurnRef # <<>>
    /\ currentTurnRef[1] = " "
    /\ chunksRef # <<>>
    /\ LastChunk(chunksRef).text = Two

(* C30: while the Recorder is shown, the timestamps of the committed chunks *)
(* of a session are non-decreasing in sequence order and none exceeds the   *)
(* current elapsed seconds, after any sequence of timer ticks, text events, *)
(* turn-complete events and finish.                                         *)
C30_TimestampsOrdered ==
    mounted =>
        /\ \A i \in 1..Len(chunksRef) : chunksRef[i].timestamp <= elapsedTimeRef
        /\ \A i \in 1..(Len(chunksRef) - 1) :
              chunksRef[i].timestamp <= chunksRef[i + 1].timestamp

====
